---- MODULE Spec2Model ----
(***************************************************************************)
(* State machine of streamlit_app.py (CodeCraft Interactive Tutor).        *)
(*                                                                         *)
(* Streamlit executes the whole script top to bottom on every interaction  *)
(* of the user; st.session_state survives from one script run to the next. *)
(* A script run is modelled as one sequential process whose position is    *)
(* pc; the steps follow the script's sections in source order.  Strings    *)
(* are sequences of characters; a fixed literal of the source is one       *)
(* element.                                                                *)
(***************************************************************************)
EXTENDS Naturals, Sequences, FiniteSets, TLC

\* ------------------------------------------------------------------ bounds
\* Longest transcript a user action may still be started on, plus two.
MaxTurns == 4
\* Cap on ChatSession objects ever constructed (the code constructs one).
MaxHandles == 2

\* ---------------------------------------------------------------- literals
Whitespace == {" ", "\n"}
EmptyText == << >>
HelloCode == <<"print(\"Hello, Learner!\")">>
OtherCode == <<"c">>
Codes == {EmptyText, HelloCode, OtherCode}
Prompts == {<<"q">>, <<"n">>}
Replies == {<<"A">>, <<"B">>}
ErrKinds == {"NameError"}
ErrMsgs == {EmptyText, <<"m">>, <<"m", "\n", "m">>}
\* The two literals start with an emoji in the source; "OK" and "!!" stand
\* for the check mark and the collision sign.
SuccessIndicator == <<"OK Code ran successfully (No output)">>
ErrorMarker == <<"!! ">>
NoChat == 0
FirstInstruction == <<"Give the user the very first instruction: ...">>

\* What learner code may write to standard output: nothing, a bare newline,
\* a printed word, two words printed with blanks around them.
RawOutputs ==
  {EmptyText, <<"\n">>, <<"x", "\n">>, <<" ", "x", " ", "x", " ", "\n">>}
HelloOutput == <<"Hello, Learner!", "\n">>

VARIABLES
  apiKey,                  \* GOOGLE_API_KEY is in the environment
  keys,                    \* the keys present in st.session_state
  chat,                    \* st.session_state.chat: a handle id, NoChat if absent
  messages,                \* st.session_state.messages (the Transcript)
  current_code,            \* st.session_state.current_code
  pc,                      \* position of the script run
  event,                   \* the widget event that triggered the run
  rendered,                \* what the chat display logic rendered last
  user_code,               \* locals of the run code handler, as last set
  output_capture,
  execution_result,
  error_occurred,
  error_details,
  result_display_content,
  ai_prompt,
  \* history variables
  handlesCreated,          \* ChatSession objects constructed so far
  sendHandles,             \* the handles send_message was called on
  preMessages,             \* the Transcript when the current action began
  action,                  \* the kind of the last user action begun
  outcome,                 \* how the last user action ended
  actionSends,             \* remote calls made by the last user action
  sent,                    \* the text of the last send_message call
  execEnded,               \* how exec ended in the last user action, if it ran
  edits,                   \* per turn: number of in-place content changes
  halted                   \* why the last run stopped at st.stop(), if it did

vars == <<apiKey, keys, chat, messages, current_code, pc, event,
          rendered, user_code, output_capture, execution_result, error_occurred,
          error_details, result_display_content, ai_prompt, handlesCreated,
          sendHandles, preMessages, action, outcome, actionSends, sent,
          execEnded, edits, halted>>

session == <<keys, chat, messages, current_code>>
locals == <<user_code, output_capture, execution_result, error_occurred, error_details,
            result_display_content, ai_prompt>>
history == <<handlesCreated, sendHandles, preMessages, action, outcome,
             actionSends, sent, execEnded, edits>>

\* ---------------------------------------------------------------- helpers
Turn(r, c) == [role |-> r, content |-> c]

IsWhite(c) == c \in Whitespace

RECURSIVE LStrip(_)
LStrip(s) == IF s # << >> /\ IsWhite(Head(s)) THEN LStrip(Tail(s)) ELSE s

RECURSIVE RStrip(_)
RStrip(s) ==
  IF s # << >> /\ IsWhite(s[Len(s)]) THEN RStrip(SubSeq(s, 1, Len(s) - 1)) ELSE s

\* str.strip()
Strip(s) == RStrip(LStrip(s))

\* the fenced python block built from user_code
CodeBlock(code) == <<"[python]\n">> \o code \o <<"\n[/python]">>

\* the Result heading and fenced text block built from result_display_content
ResultSuffix(r) == <<"\nResult:\n[text]\n">> \o r \o <<"\n[/text]">>

\* The slip of leaving out the fallback text.
SuccessDisplay_noFallback(out) == out

\* execution_result or "... Code ran successfully (No output)"
SuccessDisplay(out) == IF out # EmptyText THEN out ELSE SuccessIndicator

\* error_short: the exception's type name, a colon, its message
ErrorShort(k, m) == <<k, ": ">> \o m

\* result_display_content of a failed run: the marker, then error_short
ErrorDisplay(k, m) == ErrorMarker \o ErrorShort(k, m)

\* traceback.format_exc(): the header, the frames, then the exception line,
\* which is the bare kind when str(exc_value) is empty.
FormatExc(k, m) ==
  <<"Traceback (most recent call last):\n", "  File \"<string>\", line 1\n">>
    \o (IF m = EmptyText THEN <<k>> ELSE ErrorShort(k, m)) \o <<"\n">>

AiPrompt(r, details) ==
  <<"The user ran the code shown in their last message. The result/output was:\n[text]\n">>
    \o r \o <<"[/text]\n\n(Full error trace if any: ">> \o details
    \o <<")\n\nPlease evaluate this ...">>


\* The slip of assigning the new turn to the last slot instead of appending.
AppendTurn_overwrite(msgs, r, c) ==
  IF msgs = << >> THEN <<Turn(r, c)>>
  ELSE [msgs EXCEPT ![Len(msgs)] = Turn(r, c)]

\* One more turn at the end of the list: messages.append({...})
AppendTurn(msgs, r, c) == Append(msgs, Turn(r, c))

\* The slip of indexing the first turn instead of the last.
ExtendLast_first(msgs, suffix) ==
  [msgs EXCEPT ![1].content = @ \o suffix]

\* The slip of = for +=: the result replaces the code block.
ExtendLast_replace(msgs, suffix) ==
  [msgs EXCEPT ![Len(msgs)].content = suffix]

\* messages[-1]["content"] += suffix
ExtendLast(msgs, suffix) ==
  [msgs EXCEPT ![Len(msgs)].content = @ \o suffix]

\* The slip of appending a placeholder reply in the except branch.
AfterFailedSend_partial(msgs) == Append(msgs, Turn("assistant", EmptyText))

\* The except branches of the two send_message calls only report the error.
AfterFailedSend(msgs) == msgs

\* edits follows the list: a new turn starts at 0, a turn whose content
\* differs from what it was counts one more change.
EditsAfter(old, new, e) ==
  [i \in 1..Len(new) |->
     IF i > Len(old) THEN 0
     ELSE IF new[i].content # old[i].content THEN e[i] + 1 ELSE e[i]]

\* ------------------------------------------------------- chat display logic
\* The backward scan: la and lu are the positions of last_assistant_msg and
\* last_user_msg (0 for None), i the position the scan is at.
RECURSIVE ScanBack(_, _, _, _)
ScanBack(msgs, i, la, lu) ==
  IF i = 0 \/ (la # 0 /\ lu # 0) THEN <<la, lu>>
  ELSE IF msgs[i].role = "assistant" /\ la = 0 THEN ScanBack(msgs, i - 1, i, lu)
  ELSE IF msgs[i].role = "user" /\ lu = 0 THEN ScanBack(msgs, i - 1, la, i)
  ELSE ScanBack(msgs, i - 1, la, lu)

\* list.index(m): the first position holding a turn equal to m
IndexOf(msgs, m) ==
  CHOOSE i \in 1..Len(msgs) : msgs[i] = m /\ \A j \in 1..(i - 1) : msgs[j] # m

\* The turns rendered, in render order.
Select(msgs) ==
  LET found == ScanBack(msgs, Len(msgs), 0, 0)
      la == found[1]
      lu == found[2]
      showUser ==
        /\ lu # 0
        /\ \/ la = 0
           \/ IndexOf(msgs, msgs[lu]) > IndexOf(msgs, msgs[la])
  IN (IF la # 0 THEN <<msgs[la]>> ELSE << >>)
       \o (IF showUser THEN <<msgs[lu]>> ELSE << >>)

\* ------------------------------------------------------------ environment
Rerun == [kind |-> "rerun", text |-> EmptyText]

\* The chat box, the editor and the button are on the page once a run has
\* drawn them: the last run got past every st.stop().
WidgetsOnPage == "messages" \in keys /\ halted = "no"

\* What the page lets the user do: a reload reruns the script at any time.
Events ==
  {Rerun}
    \cup (IF WidgetsOnPage /\ Len(messages) + 2 <= MaxTurns
          THEN {[kind |-> "chat", text |-> p] : p \in Prompts}
                 \cup {[kind |-> "run", text |-> EmptyText]}
          ELSE {})
    \cup (IF WidgetsOnPage THEN {[kind |-> "edit", text |-> EmptyText]} ELSE {})

\* exec(user_code, {}) under redirect_stdout: what the code prints and how it
\* ends.  Empty source does nothing, the starter exercise prints its line, any
\* other source may print anything and end in any way.
OkOutputs(code) ==
  IF code = EmptyText THEN {EmptyText}
  ELSE IF code = HelloCode THEN {HelloOutput}
  ELSE RawOutputs

MayRaise(code) == code \notin {EmptyText, HelloCode}

Init ==
  /\ apiKey \in BOOLEAN
  /\ keys = {}
  /\ chat = NoChat
  /\ messages = << >>
  /\ current_code = EmptyText
  /\ pc = "idle"
  /\ event = Rerun
  /\ rendered = << >>
  /\ user_code = EmptyText
  /\ output_capture = EmptyText
  /\ execution_result = EmptyText
  /\ error_occurred = FALSE
  /\ error_details = EmptyText
  /\ result_display_content = EmptyText
  /\ ai_prompt = EmptyText
  /\ handlesCreated = 0
  /\ sendHandles = {}
  /\ preMessages = << >>
  /\ action = "none"
  /\ outcome = "none"
  /\ actionSends = 0
  /\ sent = EmptyText
  /\ execEnded = "none"
  /\ edits = << >>
  /\ halted = "no"

\* The user writes the key into .env; load_dotenv() never unsets a variable.
EditDotenv ==
  /\ pc = "idle"
  /\ ~apiKey
  /\ apiKey' = TRUE
  /\ UNCHANGED <<session, pc, event, rendered, locals, history, halted>>

\* A script run starts with none of the script's variables set.
FreshLocals ==
  /\ user_code' = EmptyText
  /\ output_capture' = EmptyText
  /\ execution_result' = EmptyText
  /\ error_occurred' = FALSE
  /\ error_details' = EmptyText
  /\ result_display_content' = EmptyText
  /\ ai_prompt' = EmptyText

\* An interaction starts a script run.
StartRun(ev) ==
  /\ pc = "idle"
  /\ ev \in Events
  /\ pc' = "config"
  /\ event' = ev
  /\ halted' = "no"
  /\ FreshLocals
  /\ UNCHANGED <<apiKey, session, rendered, history>>

\* st.stop(): the run ends and the page shows only the error drawn so far.
\* A widget's event is consumed by the run it triggered.
Stop(why) ==
  /\ pc' = "idle"
  /\ event' = Rerun
  /\ halted' = why

\* The slip of reporting the missing key without st.stop().
ConfigureMissingKey_continues ==
  /\ pc = "config"
  /\ ~apiKey
  /\ pc' = "init"
  /\ UNCHANGED <<apiKey, session, event, rendered, locals, history, halted>>

\* if not API_KEY: st.error(...); st.stop()
ConfigureMissingKey ==
  /\ pc = "config"
  /\ ~apiKey
  /\ Stop("no_key")
  /\ UNCHANGED <<apiKey, session, rendered, locals, history>>

\* genai.configure / GenerativeModel raised
ConfigureFail ==
  /\ pc = "config"
  /\ apiKey
  /\ Stop("config_error")
  /\ UNCHANGED <<apiKey, session, rendered, locals, history>>

ConfigureOk ==
  /\ pc = "config"
  /\ apiKey
  /\ pc' = "init"
  /\ UNCHANGED <<apiKey, session, event, rendered, locals, history, halted>>

\* The slip of testing the other key.
NeedsInit_messages == "messages" \notin keys

\* if 'chat' not in st.session_state
NeedsInit == "chat" \notin keys

\* model.start_chat raised: nothing is stored
InitStartChatFail ==
  /\ pc = "init"
  /\ NeedsInit
  /\ Stop("start_failed")
  /\ UNCHANGED <<apiKey, session, rendered, locals, history>>

\* start_chat stored the handle, the first send_message raised
InitFirstSendFail ==
  /\ pc = "init"
  /\ NeedsInit
  /\ handlesCreated < MaxHandles
  /\ handlesCreated' = handlesCreated + 1
  /\ chat' = handlesCreated + 1
  /\ keys' = keys \cup {"chat"}
  /\ sendHandles' = sendHandles \cup {chat'}
  /\ sent' = FirstInstruction
  /\ Stop("start_failed")
  /\ UNCHANGED <<apiKey, messages, current_code, rendered, locals,
                 preMessages, action, outcome, actionSends, execEnded, edits>>

InitOk(reply) ==
  /\ pc = "init"
  /\ NeedsInit
  /\ handlesCreated < MaxHandles
  /\ handlesCreated' = handlesCreated + 1
  /\ chat' = handlesCreated + 1
  /\ sendHandles' = sendHandles \cup {chat'}
  /\ sent' = FirstInstruction
  /\ messages' = <<Turn("assistant", reply)>>
  /\ edits' = EditsAfter(<< >>, messages', << >>)
  /\ current_code' = HelloCode
  /\ keys' = keys \cup {"chat", "messages", "current_code"}
  /\ pc' = "display"
  /\ UNCHANGED <<apiKey, event, rendered, locals, preMessages, action,
                 outcome, actionSends, execEnded, halted>>

\* The handle is there already: only the defaults of the other two keys run,
\* if 'messages' not in st.session_state ... if 'current_code' not in ...
InitSkip ==
  /\ pc = "init"
  /\ ~NeedsInit
  /\ messages' = IF "messages" \in keys THEN messages ELSE << >>
  /\ edits' = EditsAfter(messages, messages', edits)
  /\ current_code' = IF "current_code" \in keys THEN current_code ELSE EmptyText
  /\ keys' = keys \cup {"messages", "current_code"}
  /\ pc' = "display"
  /\ UNCHANGED <<apiKey, chat, event, rendered, locals, handlesCreated,
                 sendHandles, preMessages, action, outcome, actionSends, sent,
                 execEnded, halted>>

Display ==
  /\ pc = "display"
  /\ rendered' = Select(messages)
  /\ pc' = "chat_input"
  /\ UNCHANGED <<apiKey, session, event, locals, history, halted>>

\* ------------------------------------------------------- chat input handler
\* if prompt := st.chat_input(...): messages.append(user turn)
ChatAppendUser ==
  /\ pc = "chat_input"
  /\ event.kind = "chat"
  /\ preMessages' = messages
  /\ action' = "chat"
  /\ outcome' = "pending"
  /\ actionSends' = 0
  /\ messages' = AppendTurn(messages, "user", event.text)
  /\ edits' = EditsAfter(messages, messages', edits)
  /\ execEnded' = "none"
  /\ pc' = "chat_send"
  /\ UNCHANGED <<apiKey, keys, chat, current_code, event, rendered,
                 locals, handlesCreated, sendHandles, sent, halted>>

ChatSkip ==
  /\ pc = "chat_input"
  /\ event.kind # "chat"
  /\ pc' = "editor"
  /\ UNCHANGED <<apiKey, session, event, rendered, locals, history, halted>>

\* send_message returned: append the reply, st.rerun()
ChatSendOk(reply) ==
  /\ pc = "chat_send"
  /\ sendHandles' = sendHandles \cup {chat}
  /\ actionSends' = actionSends + 1
  /\ sent' = event.text
  /\ messages' = AppendTurn(messages, "assistant", reply)
  /\ edits' = EditsAfter(messages, messages', edits)
  /\ outcome' = "send_ok"
  /\ pc' = "config"
  /\ event' = Rerun
  /\ FreshLocals
  /\ UNCHANGED <<apiKey, keys, chat, current_code, rendered, handlesCreated,
                 preMessages, action, execEnded, halted>>

\* send_message raised: st.error(...), the script goes on to the editor
ChatSendFail ==
  /\ pc = "chat_send"
  /\ sendHandles' = sendHandles \cup {chat}
  /\ actionSends' = actionSends + 1
  /\ sent' = event.text
  /\ messages' = AfterFailedSend(messages)
  /\ edits' = EditsAfter(messages, messages', edits)
  /\ outcome' = "send_failed"
  /\ pc' = "editor"
  /\ UNCHANGED <<apiKey, keys, chat, current_code, event, rendered,
                 locals, handlesCreated, preMessages, action, execEnded, halted>>

\* --------------------------------------------------------- run code handler
\* current_code = st.text_area(...): the text the editor holds, which is
\* text when the user has just edited it; st.button("Run Code") is false
\* and the script ends.
Editor(text) ==
  /\ pc = "editor"
  /\ event.kind # "run"
  /\ current_code' = IF event.kind = "edit" THEN text ELSE current_code
  /\ pc' = "idle"
  /\ event' = Rerun
  /\ UNCHANGED <<apiKey, keys, chat, messages, rendered, locals, history, halted>>

\* the same with the button pressed
EditorRun ==
  /\ pc = "editor"
  /\ event.kind = "run"
  /\ pc' = "run_button"
  /\ UNCHANGED <<apiKey, session, event, rendered, locals, history, halted>>

\* user_code = current_code; messages.append(user turn holding the code)
RunAppendUser ==
  /\ pc = "run_button"
  /\ preMessages' = messages
  /\ action' = "run"
  /\ outcome' = "pending"
  /\ actionSends' = 0
  /\ execEnded' = "none"
  /\ user_code' = current_code
  /\ output_capture' = EmptyText
  /\ execution_result' = EmptyText
  /\ error_occurred' = FALSE
  /\ error_details' = EmptyText
  /\ result_display_content' = EmptyText
  /\ ai_prompt' = EmptyText
  /\ messages' = AppendTurn(messages, "user", CodeBlock(current_code))
  /\ edits' = EditsAfter(messages, messages', edits)
  /\ pc' = "run_exec"
  /\ UNCHANGED <<apiKey, keys, chat, current_code, event, rendered,
                 handlesCreated, sendHandles, sent, halted>>

\* exec returned: execution_result = getvalue().strip()
RunExecOk(out) ==
  /\ pc = "run_exec"
  /\ out \in OkOutputs(user_code)
  /\ execEnded' = "returned"
  /\ output_capture' = out
  /\ execution_result' = Strip(out)
  /\ result_display_content' = SuccessDisplay(execution_result')
  /\ pc' = "run_result"
  /\ UNCHANGED <<apiKey, session, event, rendered, user_code, error_occurred,
                 error_details, ai_prompt, handlesCreated, sendHandles,
                 preMessages, action, outcome, actionSends, sent, edits, halted>>

\* The slip of an except clause too narrow for the exception raised: the
\* exception leaves the handler and ends the run.
RunExecError_uncaught(k, m) ==
  /\ pc = "run_exec"
  /\ MayRaise(user_code)
  /\ execEnded' = "exception"
  /\ outcome' = "aborted"
  /\ pc' = "idle"
  /\ event' = Rerun
  /\ UNCHANGED <<apiKey, session, rendered, locals, handlesCreated,
                 sendHandles, preMessages, action, actionSends, sent, edits,
                 halted>>

\* exec raised an Exception: the except branch.  What was captured before
\* the raise is never read.
RunExecError(k, m) ==
  /\ pc = "run_exec"
  /\ MayRaise(user_code)
  /\ execEnded' = "exception"
  /\ error_occurred' = TRUE
  /\ result_display_content' = ErrorDisplay(k, m)
  /\ error_details' = FormatExc(k, m)
  /\ pc' = "run_result"
  /\ UNCHANGED <<apiKey, session, event, rendered, user_code,
                 output_capture, execution_result, ai_prompt, handlesCreated, sendHandles,
                 preMessages, action, outcome, actionSends, sent, edits, halted>>

\* exec raised outside Exception (SystemExit, KeyboardInterrupt, a script
\* control exception): except Exception lets it through and the run ends.
RunExecAbort ==
  /\ pc = "run_exec"
  /\ MayRaise(user_code)
  /\ execEnded' = "exit"
  /\ outcome' = "aborted"
  /\ pc' = "idle"
  /\ event' = Rerun
  /\ UNCHANGED <<apiKey, session, rendered, locals, handlesCreated,
                 sendHandles, preMessages, action, actionSends, sent, edits,
                 halted>>

\* the result readout, then messages[-1]["content"] += result block
RunAppendResult ==
  /\ pc = "run_result"
  /\ messages' = ExtendLast(messages, ResultSuffix(result_display_content))
  /\ edits' = EditsAfter(messages, messages', edits)
  /\ pc' = "run_send"
  /\ UNCHANGED <<apiKey, keys, chat, current_code, event, rendered,
                 locals, handlesCreated, sendHandles, preMessages, action,
                 outcome, actionSends, sent, execEnded, halted>>

\* if st.session_state.chat: a ChatSession object is always true, and the
\* script gets here only with the key present, so the else branch never runs.
\* send_message returned: append the reply, st.rerun()
RunSendOk(reply) ==
  /\ pc = "run_send"
  /\ chat # NoChat
  /\ sent' = AiPrompt(result_display_content, error_details)
  /\ sendHandles' = sendHandles \cup {chat}
  /\ actionSends' = actionSends + 1
  /\ messages' = AppendTurn(messages, "assistant", reply)
  /\ edits' = EditsAfter(messages, messages', edits)
  /\ outcome' = "send_ok"
  /\ pc' = "config"
  /\ event' = Rerun
  /\ FreshLocals
  /\ UNCHANGED <<apiKey, keys, chat, current_code, rendered, handlesCreated,
                 preMessages, action, execEnded, halted>>

RunSendFail ==
  /\ pc = "run_send"
  /\ chat # NoChat
  /\ ai_prompt' = AiPrompt(result_display_content, error_details)
  /\ sent' = ai_prompt'
  /\ sendHandles' = sendHandles \cup {chat}
  /\ actionSends' = actionSends + 1
  /\ messages' = AfterFailedSend(messages)
  /\ edits' = EditsAfter(messages, messages', edits)
  /\ outcome' = "send_failed"
  /\ pc' = "idle"
  /\ event' = Rerun
  /\ UNCHANGED <<apiKey, keys, chat, current_code, rendered,
                 user_code, output_capture, execution_result, error_occurred,
                 error_details, result_display_content, handlesCreated,
                 preMessages, action, execEnded, halted>>

Next ==
  \/ EditDotenv
  \/ \E ev \in Events : StartRun(ev)
  \/ ConfigureMissingKey
  \/ ConfigureFail
  \/ ConfigureOk
  \/ InitStartChatFail
  \/ InitFirstSendFail
  \/ \E reply \in Replies : InitOk(reply)
  \/ InitSkip
  \/ Display
  \/ ChatAppendUser
  \/ ChatSkip
  \/ \E reply \in Replies : ChatSendOk(reply)
  \/ ChatSendFail
  \/ \E text \in Codes : Editor(text)
  \/ EditorRun
  \/ RunAppendUser
  \/ \E out \in RawOutputs \cup {HelloOutput} : RunExecOk(out)
  \/ \E k \in ErrKinds, m \in ErrMsgs : RunExecError(k, m)
  \/ RunExecAbort
  \/ RunAppendResult
  \/ \E reply \in Replies : RunSendOk(reply)
  \/ RunSendFail

Spec == Init /\ [][Next]_vars

\* ================================================================= claims
Roles(msgs) == [i \in 1..Len(msgs) |-> msgs[i].role]

IsPrefix(s, t) == Len(s) <= Len(t) /\ SubSeq(t, 1, Len(s)) = s

\* The last position of msgs holding a turn of role r, 0 if there is none.
LastOf(msgs, r) ==
  LET at == {i \in 1..Len(msgs) : msgs[i].role = r}
  IN IF at = {} THEN 0 ELSE CHOOSE i \in at : \A j \in at : j <= i

\* The user turn the last action appended, once it is complete.
ActionUserTurn == messages[Len(preMessages) + 1]

\* C1: an action whose remote call succeeded has made the Transcript two
\* turns longer, a user turn then an assistant turn after the turns that were
\* there; an action whose remote call failed has made it one turn longer, the
\* user turn.
C1_LengthByOutcome ==
  /\ outcome = "send_ok" =>
       /\ Len(messages) = Len(preMessages) + 2
       /\ SubSeq(Roles(messages), Len(preMessages) + 1, Len(messages))
            = <<"user", "assistant">>
  /\ outcome = "send_failed" =>
       /\ Len(messages) = Len(preMessages) + 1
       /\ messages[Len(messages)].role = "user"

\* A code submission succeeded right after an action whose call had failed.
C1_Witness ==
  /\ outcome = "send_ok"
  /\ action = "run"
  /\ Len(preMessages) = 2
  /\ preMessages[2].role = "user"

\* C2 as stated: after a failed remote call the Transcript equals the
\* Transcript as it was before the action began.
C2_TranscriptAsBeforeAction ==
  outcome = "send_failed" => messages = preMessages

\* C2 amended: after a failed remote call the Transcript is the Transcript as
\* it was before the action began followed by the action's user turn (for a
\* code submission, the code block with its result block), and nothing else:
\* no assistant turn has been appended.
C2_OnlyUserTurnKept ==
  outcome = "send_failed" =>
    /\ Len(messages) = Len(preMessages) + 1
    /\ SubSeq(messages, 1, Len(preMessages)) = preMessages
    /\ ActionUserTurn.role = "user"
    /\ action = "chat" => ActionUserTurn.content = sent
    /\ action = "run" =>
         \E c \in Codes : IsPrefix(CodeBlock(c), ActionUserTurn.content)
                            /\ Len(ActionUserTurn.content) > Len(CodeBlock(c))

\* The evaluation prompt of a code submission failed to send.
C2_Witness ==
  /\ outcome = "send_failed"
  /\ action = "run"
  /\ pc = "idle"

\* What the display is to render by position: the latest assistant turn,
\* then the latest user turn if it lies after it.
SelectByPosition(msgs) ==
  LET la == LastOf(msgs, "assistant")
      lu == LastOf(msgs, "user")
  IN <<msgs[la]>> \o (IF lu > la THEN <<msgs[lu]>> ELSE << >>)

\* C3: whenever the Transcript holds an assistant turn, the display renders
\* the most recent assistant turn, followed by the most recent user turn if
\* and only if that turn's position is after the assistant turn's.
C3_DisplayByPosition ==
  (pc = "chat_input" /\ LastOf(messages, "assistant") # 0) =>
    rendered = SelectByPosition(messages)

\* C4: a step that changes a turn already in the Transcript changes the last
\* turn only, and that turn is the user turn the same code submission has
\* just appended.
C4_AppendTargetsOwnUserTurn ==
  [][\A i \in 1..Len(messages) :
       (i <= Len(messages') /\ messages'[i] # messages[i]) =>
         /\ i = Len(messages)
         /\ Len(messages') = Len(messages)
         /\ messages[i].role = "user"
         /\ action = "run"
         /\ pc = "run_result"
         /\ i = Len(preMessages) + 1
         /\ messages[i].content = CodeBlock(user_code)]_vars

\* The result block has been appended to the user turn of a submission made
\* on a Transcript that ends with an assistant turn.
C4_Witness ==
  /\ pc = "run_send"
  /\ Len(messages) >= 2
  /\ messages[Len(messages) - 1].role = "assistant"
  /\ edits[Len(messages)] = 1

\* C5: no step removes or reorders turns or changes a role; a step that
\* changes a turn's content extends it, the turn is the last one, and it is
\* the turn's first and only change.
C5_AppendOnly ==
  [][/\ Len(messages') >= Len(messages)
     /\ \A i \in 1..Len(messages) :
          /\ messages'[i].role = messages[i].role
          /\ IsPrefix(messages[i].content, messages'[i].content)
          /\ messages'[i].content # messages[i].content =>
               /\ i = Len(messages)
               /\ edits[i] = 0
               /\ edits'[i] = 1]_vars

\* A turn whose content was extended is followed by later turns.
C5_Witness ==
  \E i \in 1..Len(messages) : edits[i] = 1 /\ i + 2 <= Len(messages)

\* C6: at most one handle is ever created, the session holds that handle from
\* its creation on, and every remote call went through it.
C6_SingleHandle ==
  /\ handlesCreated <= 1
  /\ chat # NoChat <=> "chat" \in keys
  /\ chat # NoChat <=> handlesCreated = 1
  /\ chat # NoChat => chat = 1
  /\ sendHandles \subseteq {chat} \ {NoChat}

\* A run after a session start whose first send failed sends through the
\* handle that start created.
C6_Witness ==
  /\ chat = 1
  /\ preMessages = << >>
  /\ actionSends = 1
  /\ sendHandles = {1}

\* t is s without its leading and trailing whitespace.
IsTrimOf(t, s) ==
  \E i \in 1..(Len(s) + 1) : \E j \in 0..Len(s) :
    /\ t = SubSeq(s, i, j)
    /\ \A n \in 1..Len(s) : (n < i \/ n > j) => s[n] \in Whitespace
    /\ t # << >> => (t[1] \notin Whitespace /\ t[Len(t)] \notin Whitespace)

SingleLine(s) == \A n \in 1..Len(s) : s[n] # "\n"

\* The parts of C7 that do not concern the text of a failed run.
ResultOfReturnedCode ==
  /\ result_display_content # EmptyText
  /\ execEnded = "returned" =>
       /\ IsTrimOf(execution_result, output_capture)
       /\ execution_result # EmptyText => result_display_content = execution_result
       /\ execution_result = EmptyText => result_display_content = SuccessIndicator
  /\ messages[Len(messages)].content
       = CodeBlock(user_code) \o ResultSuffix(result_display_content)

Occurs(s, t) ==
  \E i \in 1..(Len(t) - Len(s) + 1) : SubSeq(t, i, i + Len(s) - 1) = s

C9_NoKeyNoSession ==
  ~apiKey =>
    /\ keys = {}
    /\ chat = NoChat
    /\ handlesCreated = 0
    /\ sendHandles = {}
    /\ sent = EmptyText
    /\ messages = << >>
    /\ rendered = << >>
    /\ action = "none"
    /\ pc \in {"idle", "config"}
    /\ halted \in {"no", "no_key"}
    /\ ~WidgetsOnPage

\* A run has stopped on the missing key.
C9_Witness ==
  /\ ~apiKey
  /\ halted = "no_key"

\* C10: wherever a handle exists and a user action can be processed, the
\* Transcript is non-empty and starts with an assistant turn.
C10_TranscriptStartsWithFirstReply ==
  (chat # NoChat /\ pc \in {"chat_input", "chat_send", "editor", "run_button"}) =>
    /\ messages # << >>
    /\ messages[1].role = "assistant"
====
